---- MODULE Spec2Model ----
(***************************************************************************)
(* Model of scrappex: the purchase service of main.py and the timed batch  *)
(* purchase pipeline of function.py.                                       *)
(*                                                                         *)
(* Two specifications share the variables and the lot actions:             *)
(*   Spec     the program as deployed: schedule_purchases ->               *)
(*            perform_purchases -> perform_timed_purchase_batch -> one     *)
(*            perform_synchronized_purchase task per lot, run by the       *)
(*            asyncio event loop (a FIFO queue of ready callbacks);        *)
(*   SpecLot  one burst function called as its signature declares:         *)
(*            perform_synchronized_purchase with a datetime target, or     *)
(*            perform_concurrent_purchases, on an open session.            *)
(*                                                                         *)
(* Python values carry their type: a datetime and a list are different     *)
(* values, and `list - datetime` raises TypeError as it does in Python.    *)
(***************************************************************************)
EXTENDS Integers, Sequences, FiniteSets, TLC

\* ---------------------------------------------------------------- bounds
\* Largest number of lots of one submitted batch.
MaxLots == 3
\* Horizon of the wall clock, in seconds.
MaxTime == 4

\* ------------------------------------------------------ program constants
\* range(5): purchase attempts of one burst.
Attempts == 5
\* `> 3`: seconds before the target at which the coarse wait ends.
WarmupLead == 3
\* 'status': 500 of the record built for an attempt that raised.
ErrorStatus == 500
\* response.status == 200
HttpOk == 200

LotIds == 1..MaxLots
Targets == 0..MaxTime
\* Targets of a directly called lot: with and without a coarse wait.
LotTargets == {MaxTime - 1, MaxTime}
\* Completion instants of an attempt, in ms after the burst started.
Durations == {98, 102}
AttemptIds == 1..Attempts

\* ------------------------------------------------------------ Python values
PyList(s) == [type |-> "list", val |-> s]
PyDatetime(t) == [type |-> "datetime", val |-> <<t>>]
PyNone == [type |-> "None", val |-> <<>>]
\* The instant a datetime value holds.
Instant(v) == v.val[1]

\* datetime - datetime is defined; list - datetime raises TypeError (line 226).
SubtractRaises(pt) == pt.type # "datetime"

\* str.__lt__: code points compared left to right, a proper prefix is smaller.
RECURSIVE StrLess(_, _)
StrLess(a, b) ==
    IF b = <<>> THEN FALSE
    ELSE IF a = <<>> THEN TRUE
    ELSE IF Head(a) # Head(b) THEN Head(a) < Head(b)
    ELSE StrLess(Tail(a), Tail(b))

\* The decimal digits of a natural number, as code points ('0' is 48).
RECURSIVE Digits(_)
Digits(n) == IF n < 10 THEN <<48 + n>> ELSE Append(Digits(n \div 10), 48 + (n % 10))

\* f"{request_time:.2f}" of a whole number of ms: digits, '.', '0', '0'.
FormatDuration(ms) == Digits(ms) \o <<46, 48, 48>>

\* "N/A"
NotAvailable == <<78, 47, 65>>

\* ------------------------------------------------------------ raw responses
\* What the remote service answers to one purchase POST: an HTTP response
\* (status, body) received d ms after the burst started, or a transport
\* error / timeout (an exception raised by session.post).
Unsent == [kind |-> "unsent", status |-> 0, body |-> "", d |-> 0]
Pending == [kind |-> "pending", status |-> 0, body |-> "", d |-> 0]
HttpResponses ==
    { [kind |-> "http", status |-> st, body |-> b, d |-> d] :
        st \in {HttpOk}, b \in {"success", "reject", "garbled"}, d \in Durations }
    \cup { [kind |-> "http", status |-> ErrorStatus, body |-> "success", d |-> d] :
        d \in Durations }
TransportErrors == { [kind |-> "error", status |-> 0, body |-> "", d |-> 0] }
Responses == HttpResponses \cup TransportErrors

\* json.loads(response_text) succeeds
Parses(r) == r.kind = "http" /\ r.body \in {"success", "reject"}

VARIABLES
    now,            \* datetime.now(), in seconds
    store,          \* purchase_results[request_id] of main.py
    bpc,            \* position of the background task / batch coordinator
    loginOk,        \* `success` returned by login_to_website
    session,        \* the aiohttp.ClientSession: "none", "open", "closed"
    lots,           \* the `lots` argument of the batch
    purchase_times, \* the `purchase_times` argument of the batch
    results,        \* the list perform_timed_purchase_batch returns
    ready,          \* the event loop's FIFO queue of ready callbacks
    outer,          \* the future of asyncio.gather over the lots
    nfinished,      \* gather's count of children that returned
    variant,        \* per lot: which burst function runs
    ptime,          \* per lot: the value bound to `purchase_time`
    pc,             \* per lot: position of the lot's task
    warm,           \* per lot: state of the warm-up request
    warmups,        \* per lot: how many warm-up requests were issued
    records,        \* per lot: the list the gather over the attempts returned
    syncOffset,     \* per lot: sync_offset, in seconds
    dispatchAt,     \* per lot: the clock when the burst was dispatched
    resp,           \* per lot: the raw response of each attempt
    lotResult       \* per lot: what the lot's task returned

vars == <<now, store, bpc, loginOk, session, lots, purchase_times, results, ready,
          outer, nfinished, variant, ptime, pc, warm, warmups, records, syncOffset,
          dispatchAt, resp, lotResult>>

batchVars == <<store, bpc, loginOk, session, lots, purchase_times, results, outer, nfinished>>
lotVars == <<variant, ptime, pc, warm, warmups, records, syncOffset, dispatchAt, resp,
            lotResult>>

NoResult == [kind |-> "none"]
NoStore == [status |-> "none", lots |-> <<>>, purchase_times |-> <<>>,
            results_set |-> FALSE, results |-> <<>>, error |-> "None"]

\* The lots whose task exists.
Lots == DOMAIN pc

\* --------------------------------------------------- attempt records
\* A make_request whose except branch also reports success.
MakeRequestSuccessAlways(r) == TRUE

\* make_request: any HTTP response gives a record with 'success': True; an
\* exception gives 'success': False, status 500, duration "N/A".
MakeRequestSuccess(r) == r.kind = "http"

MakeRequest(lot, k, r) ==
    IF MakeRequestSuccess(r)
    THEN [kind |-> "attempt", lot |-> lot, attempt |-> k, success |-> TRUE,
          status |-> r.status, response_text |-> r.body,
          duration_ms |-> FormatDuration(r.d)]
    ELSE [kind |-> "attempt", lot |-> lot, attempt |-> k, success |-> FALSE,
          status |-> ErrorStatus, response_text |-> "exception",
          duration_ms |-> NotAvailable]

\* single_purchase_attempt: a parsed body gives a record without 'error' whose
\* success is status == 200 and statut == 'success'; a body that does not parse
\* gives error 'JSON decode error'; an exception gives error 'Unknown error'.
\* The absent 'error' key is the empty string here.
SinglePurchaseAttempt(lot, k, r) ==
    IF Parses(r)
    THEN [kind |-> "attempt", lot |-> lot, attempt |-> k, request |-> TRUE,
          success |-> (r.status = HttpOk /\ r.body = "success"),
          status_code |-> r.status, error |-> "", timestamp |-> r.d]
    ELSE IF r.kind = "http"
    THEN [kind |-> "attempt", lot |-> lot, attempt |-> k, request |-> FALSE,
          success |-> FALSE, status_code |-> r.status,
          error |-> "JSON decode error", timestamp |-> r.d]
    ELSE [kind |-> "attempt", lot |-> lot, attempt |-> k, request |-> FALSE,
          success |-> FALSE, status_code |-> 0,
          error |-> "Unknown error", timestamp |-> r.d]

\* ------------------------------------------------------------ resolvers
\* The dict returned when no attempt has 'success': True.
AllAttemptsFailed(lot, off) ==
    [kind |-> "all_failed", lot |-> lot, attempt |-> 0, success |-> FALSE,
     sync_offset_ms |-> off * 1000, error |-> "Toutes les tentatives ont echoue"]

\* The None perform_concurrent_purchases returns.
NoneResult == [kind |-> "None", attempt |-> 0, success |-> FALSE]

\* x['duration_ms'] < y['duration_ms'] on two formatted strings.
DurationKeyLess(x, y) == StrLess(x.duration_ms, y.duration_ms)

\* min(rs, key=...): the first element no later element is smaller than.
RECURSIVE MinFrom(_, _)
MinFrom(best, rest) ==
    IF rest = <<>> THEN best
    ELSE MinFrom(IF DurationKeyLess(Head(rest), best) THEN Head(rest) ELSE best,
                 Tail(rest))

MinByDuration(rs) == MinFrom(Head(rs), Tail(rs))

\* sorted(rs, key=timestamp): a stable sort; insertion keeps equal keys in order.
RECURSIVE InsertByTimestamp(_, _)
InsertByTimestamp(sorted, r) ==
    IF sorted = <<>> THEN <<r>>
    ELSE IF r.timestamp < Head(sorted).timestamp THEN <<r>> \o sorted
    ELSE <<Head(sorted)>> \o InsertByTimestamp(Tail(sorted), r)

RECURSIVE SortedByTimestamp(_)
SortedByTimestamp(rs) ==
    IF rs = <<>> THEN <<>>
    ELSE InsertByTimestamp(SortedByTimestamp(SubSeq(rs, 1, Len(rs) - 1)), rs[Len(rs)])

IsSuccessful(r) == r.success
HasNoError(r) == r.error = ""

\* Lines 305-316 of perform_synchronized_purchase.
SynchronizedResolve(lot, off, rs) ==
    LET successful_results == SelectSeq(rs, IsSuccessful)
    IN  IF successful_results # <<>>
        THEN MinByDuration(successful_results)
        ELSE AllAttemptsFailed(lot, off)

\* Lines 207-212 of perform_concurrent_purchases.
ConcurrentResolve(rs) ==
    LET valid_results == SelectSeq(rs, HasNoError)
    IN  IF valid_results # <<>>
        THEN SortedByTimestamp(valid_results)[1]
        ELSE NoneResult

\* A gather that keeps only the attempts that were answered.
RECURSIVE AnsweredOnly(_, _, _)
AnsweredOnly(lot, rr, k) ==
    IF k > Attempts THEN <<>>
    ELSE (IF rr[k].kind = "http" THEN <<MakeRequest(lot, k, rr[k])>> ELSE <<>>)
         \o AnsweredOnly(lot, rr, k + 1)

SynchronizedRecordsAnswered(lot, rr) == AnsweredOnly(lot, rr, 1)

\* results of asyncio.gather over the attempts: the records in task order.
SynchronizedRecords(lot, rr) == [k \in AttemptIds |-> MakeRequest(lot, k, rr[k])]
ConcurrentRecords(lot, rr) == [k \in AttemptIds |-> SinglePurchaseAttempt(lot, k, rr[k])]

\* ------------------------------------------------------------ event loop
StepHandle(i) == [h |-> "step", lot |-> i]
DoneHandle(i) == [h |-> "done", lot |-> i]
WakeHandle == [h |-> "wake", lot |-> 0]

\* A scheduler that runs the newest callback first.
CallSoonNewestFirst(q, h) == <<h>> \o q

\* loop.call_soon: the callback joins the end of the ready queue.
CallSoon(q, h) == Append(q, h)

RECURSIVE CallSoonAll(_, _)
CallSoonAll(q, hs) == IF hs = <<>> THEN q ELSE CallSoonAll(CallSoon(q, Head(hs)), Tail(hs))

\* A finished child of the batch's gather schedules its done callback; a lot
\* called directly has none.
NotifyParent(q, i) == IF bpc = "gather" THEN CallSoon(q, DoneHandle(i)) ELSE q

\* ------------------------------------------------------------ lot steps
\* A coarse wait that ends one second too soon.
CoarseWaitOverSooner(n, t) == ~(t - n > WarmupLead + 1)

\* while (purchase_time - datetime.now()).total_seconds() > 3   (line 236)
CoarseWaitOver(n, t) == ~(t - n > WarmupLead)

\* A fine wait that ends one clock reading early.
FineWaitOverEarly(n, t) == ~(n + 1 < t)

\* while datetime.now() < purchase_time   (line 250)
FineWaitOver(n, t) == ~(n < t)

\* A join that returns as soon as one attempt is done.
BurstJoinedFirst(rr) == \E k \in AttemptIds : rr[k].kind \notin {"unsent", "pending"}

\* await asyncio.gather(*tasks) over the attempts returns once every one is done.
BurstJoined(rr) == \A k \in AttemptIds : rr[k].kind \notin {"unsent", "pending"}

\* session.post / session.get on a closed session raises at once.
ClosedSessionError == [kind |-> "error", status |-> 0, body |-> "", d |-> 0]
Dispatch(sess) == [k \in AttemptIds |-> IF sess = "open" THEN Pending ELSE ClosedSessionError]

TypeErrorRaised == [kind |-> "exception", attempt |-> 0, success |-> FALSE, error |-> "TypeError"]
WarmupRaised == [kind |-> "exception", attempt |-> 0, success |-> FALSE, error |-> "warmup"]

\* The latest completion instant among the attempts already answered.
LastCompletion(rr) ==
    LET ds == { rr[k].d : k \in AttemptIds } IN CHOOSE m \in ds : \A x \in ds : x <= m

\* One lot's task moves: q is the ready queue the move starts from.  A task that
\* ends (returns or raises) notifies the gather it is a child of.
LotMove(i, q, newpc, newwarm, newoff, newresp, newres) ==
    /\ pc' = [pc EXCEPT ![i] = newpc]
    /\ warm' = [warm EXCEPT ![i] = newwarm]
    /\ warmups' = [warmups EXCEPT
                     ![i] = IF \/ newpc = "warmup"
                               \/ newres = WarmupRaised /\ pc[i] # "warmup"
                            THEN @ + 1 ELSE @]
    /\ records' = [records EXCEPT
                     ![i] = IF newpc = "returned"
                            THEN (IF variant[i] = "synchronized"
                                  THEN SynchronizedRecords(lots[i], newresp)
                                  ELSE ConcurrentRecords(lots[i], newresp))
                            ELSE @]
    /\ syncOffset' = [syncOffset EXCEPT ![i] = newoff]
    /\ dispatchAt' = [dispatchAt EXCEPT
                        ![i] = IF newpc = "burst" /\ pc[i] # "burst" THEN now ELSE @]
    /\ resp' = [resp EXCEPT ![i] = newresp]
    /\ lotResult' = [lotResult EXCEPT ![i] = newres]
    /\ ready' = IF newpc \in {"returned", "raised"} THEN NotifyParent(q, i) ELSE q
    /\ UNCHANGED <<variant, ptime>>

\* Lines 253-297: sync_offset is measured and the five attempts are dispatched.
StartBurst(i, q, w) ==
    LotMove(i, q, "burst", w, now - Instant(ptime[i]), Dispatch(session), NoResult)

\* Lines 249-251: the fine wait is entered, or skipped when the target has passed.
EnterFineWait(i, q, w) ==
    IF FineWaitOver(now, Instant(ptime[i]))
    THEN StartBurst(i, q, w)
    ELSE LotMove(i, q, "fine", w, syncOffset[i], resp[i], NoResult)

\* Line 240: await warmup_connection(); nothing catches what it raises.
IssueWarmup(i, q) ==
    IF session = "open"
    THEN LotMove(i, q, "warmup", "pending", syncOffset[i], resp[i], NoResult)
    ELSE LotMove(i, q, "raised", "failed", syncOffset[i], resp[i], WarmupRaised)

\* Lines 226-240: the task's first step, up to its first await.
SynchronizedFirstStep(i, q) ==
    IF SubtractRaises(ptime[i])
    THEN LotMove(i, q, "raised", warm[i], syncOffset[i], resp[i], TypeErrorRaised)
    ELSE IF CoarseWaitOver(now, Instant(ptime[i]))
    THEN IssueWarmup(i, q)
    ELSE LotMove(i, q, "coarse", warm[i], syncOffset[i], resp[i], NoResult)

\* Lines 203-204 of perform_concurrent_purchases: the burst starts at once.
ConcurrentFirstStep(i, q) ==
    LotMove(i, q, "burst", warm[i], syncOffset[i], Dispatch(session), NoResult)

\* The event loop runs the first step of lot i's task.
RunLotStep(i) ==
    /\ ready # <<>>
    /\ Head(ready) = StepHandle(i)
    /\ pc[i] = "created"
    /\ IF variant[i] = "synchronized"
       THEN SynchronizedFirstStep(i, Tail(ready))
       ELSE ConcurrentFirstStep(i, Tail(ready))
    /\ UNCHANGED <<now, batchVars>>

\* asyncio.sleep(0.001) of the coarse wait returns and the loop condition fails.
CoarseWake(i) ==
    /\ pc[i] = "coarse"
    /\ CoarseWaitOver(now, Instant(ptime[i]))
    /\ IssueWarmup(i, ready)
    /\ UNCHANGED <<now, batchVars>>

\* The warm-up GET is answered (ok) or fails: timeout, connection error.
WarmupDone(i, ok) ==
    /\ pc[i] = "warmup"
    /\ ok => session = "open"
    /\ IF ok
       THEN EnterFineWait(i, ready, "ok")
       ELSE LotMove(i, ready, "raised", "failed", syncOffset[i], resp[i], WarmupRaised)
    /\ UNCHANGED <<now, batchVars>>

\* A fine wait that also waits for every earlier lot to have ended.
FineWakeSerial(i) ==
    /\ pc[i] = "fine"
    /\ FineWaitOver(now, Instant(ptime[i]))
    /\ \A j \in Lots : j < i => pc[j] \in {"returned", "raised"}
    /\ StartBurst(i, ready, warm[i])
    /\ UNCHANGED <<now, batchVars>>

\* asyncio.sleep(0.001) of the fine wait returns and the loop condition fails.
FineWake(i) ==
    /\ pc[i] = "fine"
    /\ FineWaitOver(now, Instant(ptime[i]))
    /\ StartBurst(i, ready, warm[i])
    /\ UNCHANGED <<now, batchVars>>

\* Attempt k of lot i is answered: r is the response or the transport error, and
\* it completes no earlier than the attempts answered before it.
AttemptDone(i, k, r) ==
    /\ pc[i] = "burst"
    /\ resp[i][k] = Pending
    /\ r.kind = "http" => r.d >= LastCompletion(resp[i])
    /\ LotMove(i, ready, "burst", warm[i], syncOffset[i], [resp[i] EXCEPT ![k] = r], NoResult)
    /\ UNCHANGED <<now, batchVars>>

\* The gather over the attempts returns: the records are resolved and the lot's
\* function returns.
LotResolve(i) ==
    /\ pc[i] = "burst"
    /\ BurstJoined(resp[i])
    /\ LotMove(i, ready, "returned", warm[i], syncOffset[i], resp[i],
               IF variant[i] = "synchronized"
               THEN SynchronizedResolve(lots[i], syncOffset[i], SynchronizedRecords(lots[i], resp[i]))
               ELSE ConcurrentResolve(ConcurrentRecords(lots[i], resp[i])))
    /\ UNCHANGED <<now, batchVars>>

\* The wall clock advances while some task can still read it.
Tick ==
    /\ now < MaxTime
    /\ \E i \in Lots : /\ variant[i] = "synchronized"
                       /\ pc[i] \in {"created", "coarse", "warmup", "fine"}
    /\ now' = now + 1
    /\ UNCHANGED <<batchVars, lotVars, ready>>

\* ------------------------------------------------------------ the service
Init ==
    /\ now = 0
    /\ store = NoStore
    /\ bpc = "idle"
    /\ loginOk = FALSE
    /\ session = "none"
    /\ lots = <<>>
    /\ purchase_times = <<>>
    /\ results = <<>>
    /\ ready = <<>>
    /\ outer = "none"
    /\ nfinished = 0
    /\ variant = <<>>
    /\ ptime = <<>>
    /\ pc = <<>>
    /\ warm = <<>>
    /\ warmups = <<>>
    /\ records = <<>>
    /\ syncOffset = <<>>
    /\ dispatchAt = <<>>
    /\ resp = <<>>
    /\ lotResult = <<>>

\* The request bodies the service accepts: two lists, of any lengths.
SeqsUpTo(S, n) == UNION { [1..m -> S] : m \in 0..n }
LotLists == SeqsUpTo(LotIds, MaxLots)
TimeLists == SeqsUpTo({0, MaxTime}, MaxLots)

\* schedule_purchases: the entry is stored as pending and the background task
\* is added with the request's lots and purchase_times.
SchedulePurchases(ls, ts) ==
    /\ bpc = "idle"
    /\ store' = [status |-> "pending", lots |-> ls, purchase_times |-> ts,
                 results_set |-> FALSE, results |-> <<>>, error |-> "None"]
    /\ lots' = ls
    /\ purchase_times' = ts
    /\ bpc' = "queued"
    /\ UNCHANGED <<now, loginOk, session, results, ready, outer, nfinished, lotVars>>

\* perform_purchases starts and awaits perform_timed_purchase_batch, which
\* awaits login_to_website.
PerformPurchases ==
    /\ bpc = "queued"
    /\ bpc' = "login"
    /\ UNCHANGED <<now, store, loginOk, session, lots, purchase_times, results, ready,
                   outer, nfinished, lotVars>>

\* A batch that goes on to its lots whatever the login returned.
AfterLoginAlwaysSpawn(ok) == "spawn"

\* Lines 328-330: `if not success: return []`.
AfterLogin(ok) == IF ok THEN "spawn" ELSE "return"

\* An update that also overwrites the stored lots.
StoreCompletedClobber(st, res) ==
    [st EXCEPT !.status = "completed", !.results_set = TRUE, !.results = res,
               !.lots = <<>>]

\* main.py lines 96-99: purchase_results[request_id].update(status, results).
StoreCompleted(st, res) ==
    [st EXCEPT !.status = "completed", !.results_set = TRUE, !.results = res]

\* main.py lines 107-110: purchase_results[request_id].update(status, error).
StoreError(st, msg) == [st EXCEPT !.status = "error", !.error = msg]

\* login_to_website returns: the session was created either way; a failed login
\* returns no session and the batch returns [] at once, leaving it open.
LoginToWebsite(ok) ==
    /\ bpc = "login"
    /\ session' = "open"
    /\ loginOk' = ok
    /\ bpc' = AfterLogin(ok)
    /\ results' = <<>>
    /\ UNCHANGED <<now, store, lots, purchase_times, ready, outer, nfinished, lotVars>>

\* Lines 338-339: one coroutine per lot, each given the whole purchase_times
\* list, wrapped in tasks by asyncio.gather; the batch then awaits the gather.
\* The gather of no coroutine is already done: the batch goes on to its finally.
SpawnLots ==
    /\ bpc = "spawn"
    /\ variant' = [i \in DOMAIN lots |-> "synchronized"]
    /\ ptime' = [i \in DOMAIN lots |-> PyList(purchase_times)]
    /\ pc' = [i \in DOMAIN lots |-> "created"]
    /\ warm' = [i \in DOMAIN lots |-> "none"]
    /\ warmups' = [i \in DOMAIN lots |-> 0]
    /\ records' = [i \in DOMAIN lots |-> <<>>]
    /\ syncOffset' = [i \in DOMAIN lots |-> 0]
    /\ dispatchAt' = [i \in DOMAIN lots |-> 0]
    /\ resp' = [i \in DOMAIN lots |-> [k \in AttemptIds |-> Unsent]]
    /\ lotResult' = [i \in DOMAIN lots |-> NoResult]
    /\ ready' = CallSoonAll(ready, [i \in DOMAIN lots |-> StepHandle(i)])
    /\ nfinished' = 0
    /\ IF lots = <<>>
       THEN outer' = "result" /\ results' = <<>> /\ session' = "closed" /\ bpc' = "return"
       ELSE outer' = "pending" /\ bpc' = "gather" /\ UNCHANGED <<results, session>>
    /\ UNCHANGED <<now, store, loginOk, lots, purchase_times>>

\* gather's _done_callback for child i: the first exception, or the last result,
\* completes the outer future and wakes the batch.
RunDoneCallback ==
    /\ ready # <<>>
    /\ Head(ready).h = "done"
    /\ LET i == Head(ready).lot
           q == Tail(ready)
       IN  IF outer # "pending"
           THEN ready' = q /\ UNCHANGED <<outer, nfinished>>
           ELSE IF pc[i] = "raised"
           THEN outer' = "exception" /\ ready' = CallSoon(q, WakeHandle)
                /\ UNCHANGED nfinished
           ELSE /\ nfinished' = nfinished + 1
                /\ IF nfinished + 1 = Len(lots)
                   THEN outer' = "result" /\ ready' = CallSoon(q, WakeHandle)
                   ELSE ready' = q /\ UNCHANGED outer
    /\ UNCHANGED <<now, store, bpc, loginOk, session, lots, purchase_times, results, lotVars>>

\* Lines 339-346: the batch resumes from the gather with the children's results
\* in order, or in `except` with results = []; `finally` closes the session.
BatchResume ==
    /\ ready # <<>>
    /\ Head(ready) = WakeHandle
    /\ bpc = "gather"
    /\ ready' = Tail(ready)
    /\ results' = IF outer = "result" THEN [i \in DOMAIN lots |-> lotResult[i]] ELSE <<>>
    /\ session' = "closed"
    /\ bpc' = "return"
    /\ UNCHANGED <<now, store, loginOk, lots, purchase_times, outer, nfinished, lotVars>>

\* Line 348 and main.py lines 96-99: the batch returns its results and
\* perform_purchases stores them with status completed.
BatchReturn ==
    /\ bpc = "return"
    /\ store' = StoreCompleted(store, results)
    /\ bpc' = "done"
    /\ UNCHANGED <<now, loginOk, session, lots, purchase_times, results, ready, outer,
                   nfinished, lotVars>>

\* get_optimized_session fails to build the ClientSession and re-raises (lines
\* 68-70): the exception leaves login_to_website and the batch, and
\* perform_purchases stores status error (main.py lines 105-110).
SessionCreationRaises ==
    /\ bpc = "login"
    /\ store' = StoreError(store, "session")
    /\ bpc' = "done"
    /\ UNCHANGED <<now, loginOk, session, lots, purchase_times, results, ready, outer,
                   nfinished, lotVars>>

Next ==
    \/ \E ls \in LotLists, ts \in TimeLists : SchedulePurchases(ls, ts)
    \/ PerformPurchases
    \/ \E ok \in BOOLEAN : LoginToWebsite(ok)
    \/ SessionCreationRaises
    \/ SpawnLots
    \/ \E i \in Lots : RunLotStep(i)
    \/ RunDoneCallback
    \/ BatchResume
    \/ BatchReturn

Spec == Init /\ [][Next]_vars

\* --------------------------------------------------- a lot called directly
\* One call of perform_synchronized_purchase(session, ..., lot, password, t) with a
\* datetime t, or of perform_concurrent_purchases(session, ..., lot, buyer_code),
\* run as a task on an open session its caller owns.
InitLot ==
    /\ now = 0
    /\ store = NoStore
    /\ bpc = "direct"
    /\ loginOk = TRUE
    /\ session = "open"
    /\ lots = <<1>>
    /\ results = <<>>
    /\ ready = <<StepHandle(1)>>
    /\ outer = "none"
    /\ nfinished = 0
    /\ \/ \E t \in LotTargets :
             /\ variant = <<"synchronized">>
             /\ purchase_times = <<t>>
             /\ ptime = <<PyDatetime(t)>>
       \/ /\ variant = <<"concurrent">>
          /\ purchase_times = <<>>
          /\ ptime = <<PyNone>>
    /\ pc = <<"created">>
    /\ warm = <<"none">>
    /\ warmups = <<0>>
    /\ records = <<<<>>>>
    /\ syncOffset = <<0>>
    /\ dispatchAt = <<0>>
    /\ resp = <<[k \in AttemptIds |-> Unsent]>>
    /\ lotResult = <<NoResult>>

\* The session the caller passed stops being usable before the burst: it was
\* closed.  (A session lost during the burst makes its pending attempts raise,
\* which AttemptDone already draws.)
SessionLost ==
    /\ bpc = "direct"
    /\ session = "open"
    /\ \A i \in Lots : pc[i] \in {"created", "coarse", "warmup", "fine"}
    /\ session' = "closed"
    /\ UNCHANGED <<now, store, bpc, loginOk, lots, purchase_times, results, outer,
                   nfinished, ready, lotVars>>

NextLot ==
    \/ \E i \in Lots : RunLotStep(i)
    \/ \E i \in Lots : CoarseWake(i)
    \/ \E i \in Lots, ok \in BOOLEAN : WarmupDone(i, ok)
    \/ \E i \in Lots : FineWake(i)
    \/ \E i \in Lots, k \in AttemptIds, r \in Responses : AttemptDone(i, k, r)
    \/ \E i \in Lots : LotResolve(i)
    \/ SessionLost
    \/ Tick

SpecLot == InitLot /\ [][NextLot]_vars

\* ==================================================================== claims
\* The verdict of the specification's Outcome Classifier on a raw response:
\* success is a parseable payload whose status field says success, received
\* with HTTP status 200.
ClassifiedSuccess(r) == r.kind = "http" /\ Parses(r) /\ r.body = "success" /\ r.status = HttpOk

\* A 200 response whose body does not parse.
UnparseableOk(r) == r.kind = "http" /\ r.status = HttpOk /\ ~Parses(r)

\* The batch has computed the list it returns.
BatchReturned == bpc \in {"return", "done"}

\* The attempt records lot i's burst produced.
RecordsOf(i) ==
    IF variant[i] = "synchronized"
    THEN SynchronizedRecords(lots[i], resp[i])
    ELSE ConcurrentRecords(lots[i], resp[i])

\* C1: a batch of n >= 1 lots whose login succeeded returns exactly n lot
\* results, whatever happened to the individual lots.
C1_OneResultPerLot ==
    (BatchReturned /\ loginOk /\ Len(lots) >= 1) => Len(results) = Len(lots)

\* C2: no purchase attempt of a lot is dispatched before the lot's target
\* instant: once an attempt of the lot has been sent, the dispatch instant is at
\* or after the target and the measured synchronization offset is >= 0.
C2_NoDispatchBeforeTarget ==
    \A i \in Lots :
        (variant[i] = "synchronized" /\ \E k \in AttemptIds : resp[i][k].kind # "unsent")
            => /\ dispatchAt[i] >= Instant(ptime[i])
               /\ syncOffset[i] >= 0

\* C2 witness: a lot that waited for a target in the future has its burst in
\* flight, dispatched exactly at the target.
C2_Witness ==
    \E i \in Lots :
        /\ variant[i] = "synchronized"
        /\ pc[i] = "burst"
        /\ resp[i][1] = Pending
        /\ Instant(ptime[i]) = MaxTime
        /\ dispatchAt[i] = MaxTime
        /\ syncOffset[i] = 0

\* C3: a lot result of perform_synchronized_purchase marked won (success = true)
\* references an attempt whose response the classifier calls success; a
\* well-formed rejection never makes the lot won.
C3_WonReferencesSuccess ==
    \A i \in Lots :
        (variant[i] = "synchronized" /\ pc[i] = "returned" /\ lotResult[i].success)
            => ClassifiedSuccess(resp[i][lotResult[i].attempt])

\* C4: an attempt answered 200 with an unparseable body is never recorded as a
\* success, and a burst whose attempts are all answered that way is not won.
C4_UnparseableIsNotSuccess ==
    \A i \in Lots :
        pc[i] = "returned"
            => /\ \A k \in AttemptIds :
                    UnparseableOk(resp[i][k]) => ~RecordsOf(i)[k].success
               /\ (\A k \in AttemptIds : UnparseableOk(resp[i][k]))
                    => ~lotResult[i].success

\* C5: among the success attempts of a lot, the one returned as winner is the
\* earliest completed: a success that completed after another success is never
\* returned.
C5_EarliestSuccessWins ==
    \A i \in Lots :
        (variant[i] = "synchronized" /\ pc[i] = "returned")
            => \A a, b \in AttemptIds :
                  (/\ ClassifiedSuccess(resp[i][a])
                   /\ ClassifiedSuccess(resp[i][b])
                   /\ resp[i][a].d < resp[i][b].d)
                      => ~(lotResult[i].success /\ lotResult[i].attempt = b)

\* C6: when at least one attempt of the burst is classified success, the
\* resolver (of either burst function) returns a success record, never a
\* rejection or an indeterminate one.
C6_SuccessPreferred ==
    \A i \in Lots :
        (pc[i] = "returned" /\ \E k \in AttemptIds : ClassifiedSuccess(resp[i][k]))
            => /\ lotResult[i].kind = "attempt"
               /\ ClassifiedSuccess(resp[i][lotResult[i].attempt])

\* C7: a failed warm-up is swallowed: the lot's function does not end by
\* raising because of it.
C7_WarmupFailureSwallowed ==
    \A i \in Lots : warm[i] = "failed" => pc[i] # "raised"

\* C8: an error raised inside one lot's orchestrator does not abort the batch:
\* the returned list still holds a result for every lot, the failing lot's
\* being a failed lot result.
C8_LotFailureContained ==
    (BatchReturned /\ loginOk /\ \E i \in Lots : pc[i] = "raised")
        => /\ Len(results) = Len(lots)
           /\ \A i \in Lots :
                 /\ results[i].lot = lots[i]
                 /\ pc[i] = "raised" => results[i].kind = "all_failed"

\* C9: the session is closed only by the batch coordinator and only after
\* every lot's task has finished: while it is closed no lot is still to start,
\* waiting, warming up or in its burst.
C9_SessionClosedAfterLots ==
    session = "closed"
        => /\ BatchReturned
           /\ Lots = DOMAIN lots
           /\ \A i \in Lots :
                 /\ pc[i] \in {"returned", "raised"}
                 /\ warm[i] # "pending"
                 /\ \A k \in AttemptIds : resp[i][k].kind # "pending"

\* C9 witness: the coordinator has closed the session of a batch of at least
\* two lots, all of whose tasks have ended.
C9_Witness ==
    /\ session = "closed"
    /\ Len(lots) >= 2
    /\ Lots = DOMAIN lots
    /\ \A i \in Lots : pc[i] \in {"returned", "raised"}

\* C10: the returned list preserves submission order: for every index i of the
\* submitted lots, its i-th element is the result of the i-th lot.
C10_ResultsInSubmissionOrder ==
    (BatchReturned /\ loginOk)
        => \A i \in DOMAIN lots : i \in DOMAIN results /\ results[i].lot = lots[i]

\* login_to_website has returned (the session exists) and reported a failure.
LoginFailed == bpc \in {"return", "done"} /\ ~loginOk /\ session # "none"

\* C11: when authentication fails, the stored batch status becomes error, with
\* a diagnostic message and no results; it never becomes completed.
C11_AuthFailureStoresError ==
    (LoginFailed /\ bpc = "done")
        => /\ store.status = "error"
           /\ store.error # "None"
           /\ ~store.results_set

\* C12: when authentication fails the batch is aborted before any lot starts:
\* no lot task is created or scheduled, so no warm-up and no attempt is issued.
C12_AuthFailureStartsNoLot ==
    LoginFailed
        => /\ Lots = {}
           /\ ready = <<>>
           /\ outer = "none"

\* C12 witness: a batch of at least one lot whose login failed has returned.
C12_Witness == LoginFailed /\ bpc = "done" /\ Len(lots) >= 1

\* C13: a batch whose authentication succeeded ends with status completed and
\* a stored result list holding one lot result per submitted lot, never error.
C13_CompletedWithOneResultPerLot ==
    (bpc = "done" /\ loginOk)
        => /\ store.status = "completed"
           /\ Len(store.results) = Len(store.lots)

\* C19: the stored status only moves pending -> completed or pending -> error;
\* a completed or error entry never changes again, and the stored lots and
\* purchase_times never change after submission.
C19_StoreStatusMonotone ==
    [][ /\ store.status \in {"completed", "error"} => store' = store
        /\ store.status = "pending" => store'.status \in {"pending", "completed", "error"}
        /\ store.status # "none" =>
              /\ store'.lots = store.lots
              /\ store'.purchase_times = store.purchase_times ]_vars

\* C19 witness: the entry of a batch of at least one lot is completed.
C19_Witness == store.status = "completed" /\ Len(store.lots) >= 1

\* C20: every session login created is closed by the time the batch has
\* computed what it returns, on every path, login failure included.
C20_SessionClosedOnReturn ==
    BatchReturned => session # "open"

\* C14: every burst produces exactly as many attempt records as the attempt
\* count, one per attempt, whichever attempts succeed, are rejected or raise.
C14_OneRecordPerAttempt ==
    \A i \in Lots :
        pc[i] = "returned"
            => /\ Len(records[i]) = Attempts
               /\ \A k \in AttemptIds : records[i][k].attempt = k

\* C14 witness: a burst mixing an answered attempt and a raised one has been
\* joined.
C14_Witness ==
    \E i \in Lots :
        /\ pc[i] = "returned"
        /\ variant[i] = "synchronized"
        /\ resp[i][1].kind = "error"
        /\ resp[i][2].kind = "http"

\* C15: the dispatcher performs a full join: a lot's function returns only
\* after every attempt of its burst has been answered or has raised.
C15_FullJoin ==
    \A i \in Lots :
        pc[i] = "returned"
            => \A k \in AttemptIds : resp[i][k].kind \in {"http", "error"}

\* C15 witness: a lot returned whose first attempt was a success completed
\* before a later answer to another attempt.
C15_Witness ==
    \E i \in Lots :
        /\ pc[i] = "returned"
        /\ ClassifiedSuccess(resp[i][1])
        /\ resp[i][2].kind = "http"
        /\ resp[i][1].d < resp[i][2].d

\* C16: when every attempt of a synchronized burst raised (transport error,
\* timeout, closed session) the lot result is all-attempts-failed with
\* success = false, and once the burst is dispatched nothing is raised out of
\* the lot's function.
C16_AllErrorsIsAllFailed ==
    \A i \in Lots :
        variant[i] = "synchronized"
            => /\ (pc[i] = "returned" /\ \A k \in AttemptIds : resp[i][k].kind = "error")
                    => (lotResult[i].kind = "all_failed" /\ ~lotResult[i].success)
               /\ (\E k \in AttemptIds : resp[i][k].kind # "unsent") => pc[i] # "raised"

\* C16 witness: a lot whose five attempts raised on a closed session returned.
C16_Witness ==
    \E i \in Lots :
        /\ variant[i] = "synchronized"
        /\ pc[i] = "returned"
        /\ session = "closed"
        /\ \A k \in AttemptIds : resp[i][k].kind = "error"

PairResponses ==
    TransportErrors
    \cup { r \in HttpResponses : r.status = HttpOk /\ r.body = "success" /\ r.d = 98 }

InitPair ==
    /\ now = 0
    /\ store = NoStore
    /\ bpc = "direct"
    /\ loginOk = TRUE
    /\ session = "open"
    /\ lots = <<1, 2>>
    /\ results = <<>>
    /\ ready = <<StepHandle(1), StepHandle(2)>>
    /\ outer = "none"
    /\ nfinished = 0
    /\ variant = <<"synchronized", "synchronized">>
    /\ \E t1, t2 \in LotTargets :
          /\ purchase_times = <<t1, t2>>
          /\ ptime = <<PyDatetime(t1), PyDatetime(t2)>>
    /\ pc = <<"created", "created">>
    /\ warm = <<"none", "none">>
    /\ warmups = <<0, 0>>
    /\ records = <<<<>>, <<>>>>
    /\ syncOffset = <<0, 0>>
    /\ dispatchAt = <<0, 0>>
    /\ resp = <<[k \in AttemptIds |-> Unsent], [k \in AttemptIds |-> Unsent]>>
    /\ lotResult = <<NoResult, NoResult>>

NextPair ==
    \/ \E i \in Lots : RunLotStep(i)
    \/ \E i \in Lots : CoarseWake(i)
    \/ \E i \in Lots, ok \in BOOLEAN : WarmupDone(i, ok)
    \/ \E i \in Lots : FineWake(i)
    \/ \E i \in Lots, k \in AttemptIds, r \in PairResponses : AttemptDone(i, k, r)
    \/ \E i \in Lots : LotResolve(i)
    \/ Tick

SpecPair == InitPair /\ [][NextPair]_vars

====
